---- MODULE Spec2Model ----
(***************************************************************************)
(* Model of src/src/worker.ts: the appointment-date watcher.  One check    *)
(* cycle (runCheck) is a sequence of awaits; every await on the key-value  *)
(* store or on an HTTP request is one step of the model, so the store is   *)
(* observed exactly where the code observes it.                            *)
(*                                                                         *)
(* Representation                                                          *)
(*   - a store value is <<>> (KV.get returned null) or <<v>>;              *)
(*   - an ISO date "YYYY-MM-DD" is the tuple <<y, m, d>>; a longer ISO     *)
(*     timestamp is a longer tuple with that prefix;                       *)
(*   - a decimal string is the sequence of its digits;                     *)
(*   - an error message is [text, status];                                 *)
(*   - sha256Hex is an ideal (collision-free) digest: the digest of s is   *)
(*     the tagged value [sha256 |-> s];                                    *)
(*   - timestamp() is wall-clock text and is one opaque token.             *)
(***************************************************************************)
EXTENDS Integers, Sequences, FiniteSets, TLC

(* ------------------------------ bounds -------------------------------- *)

\* cycles are started only while the stored failure counter is below this
MaxFail == 10

\* the same bound in the specifications with faults, cut-offs or fairness
MaxFailSmall == 3

\* the per-cycle request counters saturate here
MaxCount == 3

\* invocations that exist (one is active in the sequential specification)
Procs == {1, 2}

(* --------------------------- small helpers ---------------------------- *)

Null == <<>>

Some(v) == <<v>>

Min(a, b) == IF a < b THEN a ELSE b

\* Op(v), with v evaluated once before Op is applied
Apply(Op(_), v) == CHOOSE r \in {Op(x) : x \in {v}} : TRUE

Bump(n) == Min(n + 1, MaxCount)

\* Response.ok
ok(status) == status \in 200..299

\* Number.prototype.toString for a non-negative integer
RECURSIVE toString(_)
toString(n) == IF n < 10 THEN <<n>> ELSE Append(toString(n \div 10), n % 10)

\* parseInt(s, 10) of a digit string
RECURSIVE parseInt(_)
parseInt(s) ==
  IF Len(s) = 1 THEN s[1]
  ELSE 10 * parseInt(SubSeq(s, 1, Len(s) - 1)) + s[Len(s)]

\* x || d  for a store value; no value the program stores is the empty string
OrDefault(x, d) == IF x = Null THEN d ELSE x[1]

timestamp == "ts"

JSONstringify(o) == [json |-> o]

JSONparse(s) == s.json

(* ------------------------------ calendar ------------------------------ *)

IsLeap(y) == (y % 4 = 0 /\ y % 100 # 0) \/ y % 400 = 0

DaysInMonth(y, m) ==
  IF m = 2 THEN (IF IsLeap(y) THEN 29 ELSE 28)
  ELSE IF m \in {4, 6, 9, 11} THEN 30 ELSE 31

\* new Date(Date.UTC(year, monthIndex, day)) for day 0 or 1: the month index
\* is normalised into the year, and day 0 is the day before day 1.
DateUTC(year, monthIndex, day) ==
  LET y  == year + (monthIndex \div 12)
      m  == (monthIndex % 12) + 1
      py == year + ((monthIndex - 1) \div 12)
      pm == ((monthIndex - 1) % 12) + 1
  IN  IF day >= 1 THEN <<y, m, day>> ELSE <<py, pm, DaysInMonth(py, pm)>>

\* the last day is taken of the month before the target month
calculateMonthRangeM(nowDate, offset) ==
  LET first == DateUTC(nowDate.year, (nowDate.month - 1) + offset, 1)
      last  == DateUTC(first[1], first[2] - 1, 0)
  IN  [startISO |-> first, endISO |-> last,
       displayMonth |-> first[2], displayYear |-> first[1]]

calculateMonthRange(nowDate, offset) ==
  LET first == DateUTC(nowDate.year, (nowDate.month - 1) + offset, 1)
      last  == DateUTC(first[1], (first[2] - 1) + 1, 0)
  IN  [startISO |-> first, endISO |-> last,
       displayMonth |-> first[2], displayYear |-> first[1]]

\* d <= end on Date objects
DateLeq(a, b) ==
  \/ a[1] < b[1]
  \/ a[1] = b[1] /\ a[2] < b[2]
  \/ a[1] = b[1] /\ a[2] = b[2] /\ a[3] <= b[3]

\* d.setUTCDate(d.getUTCDate() + 1)
NextDay(d) ==
  IF d[3] < DaysInMonth(d[1], d[2]) THEN <<d[1], d[2], d[3] + 1>>
  ELSE IF d[2] < 12 THEN <<d[1], d[2] + 1, 1>>
  ELSE <<d[1] + 1, 1, 1>>

RECURSIVE AllDays(_, _)
AllDays(d, end) ==
  IF DateLeq(d, end)
  THEN <<d>> \o Apply(LAMBDA next : AllDays(next, end), NextDay(d))
  ELSE <<>>

\* x.date.substring(0, 10)
ISOPrefix(s) == SubSeq(s, 1, Min(3, Len(s)))

SeqFilterOut(s, drop) ==
  LET F[i \in 0..Len(s)] ==
        IF i = 0 THEN <<>>
        ELSE IF s[i] \in drop THEN F[i - 1] ELSE Append(F[i - 1], s[i])
  IN  F[Len(s)]

\* the date field is compared as it comes, time part included
computeAvailableDaysM(disabledDates, range) ==
  LET all == AllDays(range.startISO, range.endISO)
      disabledSet ==
        { disabledDates[i].date :
            i \in { j \in 1..Len(disabledDates) : disabledDates[j].date # <<>> } }
  IN  SeqFilterOut(all, disabledSet)

computeAvailableDays(disabledDates, range) ==
  LET all == AllDays(range.startISO, range.endISO)
      disabledSet ==
        { ISOPrefix(disabledDates[i].date) :
            i \in { j \in 1..Len(disabledDates) : disabledDates[j].date # <<>> } }
  IN  SeqFilterOut(all, disabledSet)

(* ------------------------- notification text -------------------------- *)

\* dates.join(",")
RECURSIVE Join(_)
Join(dates) ==
  IF Len(dates) = 0 THEN <<>>
  ELSE IF Len(dates) = 1 THEN dates[1]
  ELSE dates[1] \o <<",">> \o Join(Tail(dates))

sha256Hex(data) == [sha256 |-> data]

\* the suffix is added from the fifteenth date on
buildDatesMessageM(dates, range) ==
  [kind   |-> "dates",
   header |-> <<range.displayMonth, range.displayYear>>,
   list   |-> SubSeq(dates, 1, Min(15, Len(dates))),
   extra  |-> IF Len(dates) >= 15 THEN Some(Len(dates) - 15) ELSE Null]

buildDatesMessage(dates, range) ==
  [kind   |-> "dates",
   header |-> <<range.displayMonth, range.displayYear>>,
   list   |-> SubSeq(dates, 1, Min(15, Len(dates))),
   extra  |-> IF Len(dates) > 15 THEN Some(Len(dates) - 15) ELSE Null]

ErrorText(msg, current) == [kind |-> "error", msg |-> msg, count |-> current]

StillFailingText(msg, current) == [kind |-> "still", msg |-> msg, count |-> current]

(* -------------------------- the environment --------------------------- *)

\* statuses the login endpoint answers with
LoginStatuses == {200, 401}

\* access tokens a successful login may return
Tokens == {"t1", "t2"}

\* statuses the disabled-dates endpoint answers with
DatesStatuses == {200, 401, 403, 500}

\* outcomes of the messaging-bot request
TelegramOutcomes == {"ok", "non2xx", "throw"}

\* a login body that is not JSON
Malformed == "malformed"

\* a response body of the disabled-dates endpoint: JSON text or not
Body(list) == [valid |-> TRUE, value |-> list]

MalformedBody == [valid |-> FALSE, value |-> <<>>]

\* fetch() rejected (network error)
FetchFailed == [text |-> "fetch failed", status |-> 0]

\* res.json() rejected
JSONError == [text |-> "Unexpected token", status |-> 0]

\* a store operation rejected
KVError == [text |-> "KV error", status |-> 0]

NoError == [text |-> "", status |-> 0]

\* TARGET_MONTH_OFFSET || "0"
monthOffset == parseInt(<<0>>)

\* a disabled-dates body that disables every day of the range except the
\* days in free; one record has no date field and one carries a timestamp
DisabledBody(range, free) ==
  LET all == AllDays(range.startISO, range.endISO)
      F[i \in 0..Len(all)] ==
        IF i = 0 THEN <<[date |-> <<>>]>>
        ELSE IF all[i][3] \in free THEN F[i - 1]
        ELSE Append(F[i - 1], [date |-> all[i] \o <<"T00:00:00">>])
  IN  F[Len(all)]

\* the sets of free days the site reports in this model
FreeDays == {{}, {1}, {2}}

\* new Date() during the cycles of this model
Now == [year |-> 2025, month |-> 7]

\* const range = calculateMonthRange(monthOffset)
Range == calculateMonthRange(Now, monthOffset)

\* the JSON bodies the disabled-dates endpoint answers with
Bodies == {Body(DisabledBody(Range, f)) : f \in FreeDays}

\* computeAvailableDays(disabledList, range) for each of these bodies
AvailableDates == [b \in Bodies |-> computeAvailableDays(b.value, Range)]

(* ------------------------------ the state ------------------------------ *)

VARIABLES
  kv,            \* env.KV: key -> <<>> or <<value>>
  storeFaults,   \* TRUE when store operations may reject
  limit,         \* cycles start while the failure counter is below it
  active,        \* the invocations that run
  inv,           \* per invocation: position and locals of runCheck
  hist,          \* the cycle that finished before the current one
  lastNotified,  \* date list of the latest dates message requested
  fn             \* a call of one of the pure functions: arguments and result

vars == <<kv, storeFaults, limit, active, fn, inv, hist, lastNotified>>


NoCall == [op |-> "none", args |-> <<>>, result |-> Null]

EmptyKV ==
  [Cookie |-> Null, Last |-> Null, Last_auth |-> Null, Last_dates |-> Null,
   fail_count |-> Null, last_error_msg |-> Null]

Invocation(position, t, store, notified) ==
  [pc        |-> position,
   trigger   |-> t,
   cookie    |-> Null,        \* AuthCookie in hand
   res       |-> [status |-> 0, body |-> MalformedBody],   \* Response in hand
   dates     |-> <<>>,        \* availableDates
   err       |-> NoError,     \* the caught error
   current   |-> 0,           \* prev + 1 in the failure tracker
   branch    |-> "try",       \* try | success | failure
   outcome   |-> "pending",   \* the promise of runCheck
   report    |-> <<>>,        \* status, lastAuth, lastDates read by fetch()
   response  |-> Null,        \* the manual trigger's Response
   nReq      |-> 0,           \* availability requests of this cycle
   nLogin    |-> 0,           \* login requests of this cycle
   nForced   |-> 0,           \* re-logins after 401/403 in this cycle
   lastStatus |-> 0,          \* status of the latest availability response
   fresh     |-> Null,        \* the credential this cycle has stored
   sent      |-> <<>>,        \* messages requested in this cycle
   notifyRes |-> "none",      \* outcome of the dates message request
   notifiedBefore |-> notified,   \* lastNotified when the cycle started
   startKV   |-> [k \in {"Last_dates", "fail_count", "last_error_msg"} |-> store[k]]]
                              \* what the store held when the cycle started

IsDatesMsg(m) == m.kind = "dates"

IsFailureMsg(m) == m.kind \in {"error", "still"}

\* the dates messages and the failure messages a cycle has requested
NDates(r) == Len(SelectSeq(r.sent, IsDatesMsg))

FailureMsgs(r) == SelectSeq(r.sent, IsFailureMsg)

\* no cycle has finished yet
NoHist == [branch |-> "none", dates |-> <<>>, nDates |-> 0, streak |-> 0]

KVOutcomes == IF storeFaults THEN {"ok", "throw"} ELSE {"ok"}

Init ==
  /\ kv = EmptyKV
  /\ storeFaults = FALSE
  /\ limit = MaxFail
  /\ active = {1}
  /\ inv = [p \in Procs |-> Invocation("idle", "none", EmptyKV, Null)]
  /\ hist = NoHist
  /\ lastNotified = Null
  /\ fn = NoCall

\* the same, with a store whose operations may reject
InitKV ==
  /\ kv = EmptyKV
  /\ storeFaults = TRUE
  /\ limit = MaxFailSmall
  /\ active = {1}
  /\ inv = [p \in Procs |-> Invocation("idle", "none", EmptyKV, Null)]
  /\ hist = NoHist
  /\ lastNotified = Null
  /\ fn = NoCall

\* the reliable store with the smaller bound on the failure counter
InitSmall ==
  /\ kv = EmptyKV
  /\ storeFaults = FALSE
  /\ limit = MaxFailSmall
  /\ active = {1}
  /\ inv = [p \in Procs |-> Invocation("idle", "none", EmptyKV, Null)]
  /\ hist = NoHist
  /\ lastNotified = Null
  /\ fn = NoCall

\* the store after two cycles whose login request was rejected by the network
FailingKV ==
  [EmptyKV EXCEPT !.fail_count = Some(toString(2)),
                  !.last_error_msg = Some(FetchFailed)]

\* a manual trigger races a timer tick, over the empty store or FailingKV
InitRace ==
  /\ kv \in {EmptyKV, FailingKV}
  /\ storeFaults = FALSE
  /\ limit = MaxFailSmall
  /\ active = {1, 2}
  /\ inv = [p \in Procs |-> Invocation("idle", "none", EmptyKV, Null)]
  /\ hist = NoHist
  /\ lastNotified = Null
  /\ fn = NoCall

Set(p, r) == inv' = [inv EXCEPT ![p] = r]

NoResponse == [status |-> 0, body |-> MalformedBody]

\* the catch block of runCheck is entered with error e; the locals of the
\* try block are out of scope
Catch(r, e) ==
  [r EXCEPT !.pc = "fail_getCount", !.err = e, !.branch = "failure",
            !.cookie = Null, !.res = NoResponse]

\* fetch() without its try/catch: a rejected runCheck makes the handler throw
SettleM(r, result) ==
  IF r.trigger = "fetch" /\ result = "rejected"
  THEN [r EXCEPT !.outcome = result, !.pc = "done",
                 !.response = Some([status |-> 500, body |-> <<>>])]
  ELSE [r EXCEPT !.outcome = result,
                 !.pc = IF r.trigger = "fetch" THEN "report_getLast" ELSE "done"]

\* runCheck settles; the manual trigger goes on to build its report
Settle(r, result) ==
  [r EXCEPT !.outcome = result,
            !.pc = IF r.trigger = "fetch" THEN "report_getLast" ELSE "done"]

\* the failed cycles in a row, up to the limit, when cycle r has finished;
\* they are counted while every cycle has run to its end over a store whose
\* operations return, and are Uncounted from then on
Uncounted == 0 - 1

Streak(r) ==
  IF storeFaults \/ hist.streak = Uncounted \/ r.branch = "aborted" THEN Uncounted
  ELSE IF r.branch = "failure" THEN Min(hist.streak + 1, limit)
  ELSE 0

(* ------------------------------ triggers ------------------------------- *)

\* scheduled() / fetch(): a new invocation calls runCheck
Start(p, t) ==
  /\ p \in active
  /\ inv[p].pc \in {"idle", "done"}
  /\ parseInt(OrDefault(kv.fail_count, <<0>>)) < limit
  /\ Set(p, Invocation("ensureAuth_get", t, kv, lastNotified))
  /\ hist' = IF inv[p].pc = "done"
             THEN [branch |-> inv[p].branch,
                   dates  |-> inv[p].dates,
                   nDates |-> NDates(inv[p]),
                   streak |-> Streak(inv[p])]
             ELSE hist
  /\ UNCHANGED <<kv, storeFaults, limit, active, fn, lastNotified>>

\* the 8h expirationTtl of the Cookie key runs out, though not within the
\* invocation that has written the key
ExpireCookie ==
  /\ kv.Cookie # Null
  /\ \A p \in Procs : inv[p].pc \in {"idle", "done"} \/ inv[p].fresh = Null
  /\ kv' = [kv EXCEPT !.Cookie = Null]
  /\ UNCHANGED <<storeFaults, limit, active, fn, inv, hist, lastNotified>>

(* --------------------------- authentication ---------------------------- *)

\* the cached credential is not looked at: every cycle logs in
EnsureAuthGetM(p) ==
  /\ inv[p].pc = "ensureAuth_get"
  /\ Set(p, [inv[p] EXCEPT !.pc = "login_fetch"])
  /\ UNCHANGED <<kv, storeFaults, limit, active, fn, hist, lastNotified>>

\* ensureAuth: KV.get("Cookie"), then login() when there is none
EnsureAuthGet(p) ==
  /\ inv[p].pc = "ensureAuth_get"
  /\ \E o \in KVOutcomes :
       IF o = "throw" THEN Set(p, Catch(inv[p], KVError))
       ELSE IF kv.Cookie = Null
            THEN Set(p, [inv[p] EXCEPT !.pc = "login_fetch"])
            ELSE Set(p, [inv[p] EXCEPT !.pc = "dates_fetch",
                                       !.cookie = Some(JSONparse(kv.Cookie[1]))])
  /\ UNCHANGED <<kv, storeFaults, limit, active, fn, hist, lastNotified>>

LoginFetch(p) ==
  /\ inv[p].pc = "login_fetch"
  /\ LET r == [inv[p] EXCEPT !.nLogin = Bump(@)] IN
       \/ Set(p, Catch(r, FetchFailed))
       \/ \E s \in LoginStatuses, b \in Tokens \cup {Malformed} :
            IF ~ok(s) THEN Set(p, Catch(r, [text |-> "Login failed", status |-> s]))
            ELSE IF b = Malformed THEN Set(p, Catch(r, JSONError))
            ELSE Set(p, [r EXCEPT !.pc = "login_putCookie",
                                  !.cookie = Some([accessToken |-> b])])
  /\ UNCHANGED <<kv, storeFaults, limit, active, fn, hist, lastNotified>>

LoginPutCookie(p) ==
  /\ inv[p].pc = "login_putCookie"
  /\ \E o \in KVOutcomes :
       IF o = "throw"
       THEN Set(p, Catch(inv[p], KVError)) /\ UNCHANGED kv
       ELSE /\ kv' = [kv EXCEPT !.Cookie = Some(JSONstringify(inv[p].cookie[1]))]
            /\ Set(p, [inv[p] EXCEPT !.pc = "login_putAuth",
                                       !.fresh = inv[p].cookie])
  /\ UNCHANGED <<storeFaults, limit, active, fn, hist, lastNotified>>

LoginPutAuth(p) ==
  /\ inv[p].pc = "login_putAuth"
  /\ \E o \in KVOutcomes :
       IF o = "throw"
       THEN Set(p, Catch(inv[p], KVError)) /\ UNCHANGED kv
       ELSE /\ kv' = [kv EXCEPT !.Last_auth = Some(timestamp)]
            /\ Set(p, [inv[p] EXCEPT !.pc = "dates_fetch"])
  /\ UNCHANGED <<storeFaults, limit, active, fn, hist, lastNotified>>

(* ------------------------ fetching availability ------------------------ *)

\* res.status === 401 || res.status === 403
IsAuthExpired(status) == status = 401 \/ status = 403

DatesFetch(p) ==
  /\ inv[p].pc = "dates_fetch"
  /\ LET r == [inv[p] EXCEPT !.nReq = Bump(@), !.cookie = Null] IN
       \/ Set(p, Catch(r, FetchFailed))
       \/ \E s \in DatesStatuses :
            \E b \in IF ok(s) THEN Bodies \cup {MalformedBody}
                     ELSE {MalformedBody} :
              LET r2 == [r EXCEPT !.res = [status |-> s, body |-> b],
                                  !.lastStatus = s] IN
                IF IsAuthExpired(s) THEN Set(p, [r2 EXCEPT !.pc = "dates_delCookie"])
                ELSE IF ~ok(s) THEN Set(p, [r2 EXCEPT !.pc = "dates_putLastErr"])
                ELSE Set(p, [r2 EXCEPT !.pc = "dates_putLast200"])
  /\ UNCHANGED <<kv, storeFaults, limit, active, fn, hist, lastNotified>>

\* KV.delete("Cookie"), then login(env) and fetchAvailableDates again
DatesDelCookie(p) ==
  /\ inv[p].pc = "dates_delCookie"
  /\ \E o \in KVOutcomes :
       IF o = "throw"
       THEN Set(p, Catch(inv[p], KVError)) /\ UNCHANGED kv
       ELSE /\ kv' = [kv EXCEPT !.Cookie = Null]
            /\ Set(p, [inv[p] EXCEPT !.pc = "login_fetch", !.nForced = Bump(@),
                                       !.res = NoResponse, !.fresh = Null])
  /\ UNCHANGED <<storeFaults, limit, active, fn, hist, lastNotified>>

DatesPutLastErr(p) ==
  /\ inv[p].pc = "dates_putLastErr"
  /\ \E o \in KVOutcomes :
       IF o = "throw"
       THEN Set(p, Catch(inv[p], KVError)) /\ UNCHANGED kv
       ELSE /\ kv' = [kv EXCEPT !.Last = Some([status |-> inv[p].res.status,
                                               at |-> timestamp])]
            /\ Set(p, Catch(inv[p], [text |-> "Dates fetch failed",
                                     status |-> inv[p].res.status]))
  /\ UNCHANGED <<storeFaults, limit, active, fn, hist, lastNotified>>

\* the branch of runCheck taken for every list
HasDatesM(availableDates) == TRUE

\* availableDates.length > 0
HasDates(availableDates) == Len(availableDates) > 0

\* KV.put("Last", "200:..."), res.json(), computeAvailableDays, and the
\* branch of runCheck on the result
DatesPutLast200(p) ==
  /\ inv[p].pc = "dates_putLast200"
  /\ \E o \in KVOutcomes :
       IF o = "throw"
       THEN Set(p, Catch(inv[p], KVError)) /\ UNCHANGED kv
       ELSE /\ kv' = [kv EXCEPT !.Last = Some([status |-> 200, at |-> timestamp])]
            /\ IF ~inv[p].res.body.valid
               THEN Set(p, Catch(inv[p], JSONError))
               ELSE LET availableDates == AvailableDates[inv[p].res.body]
                    IN  Set(p, [inv[p] EXCEPT
                                  !.dates = availableDates,
                                  !.res = NoResponse,
                                  !.pc = IF HasDates(availableDates)
                                         THEN "notify_get" ELSE "reset_putCount"])
  /\ UNCHANGED <<storeFaults, limit, active, fn, hist, lastNotified>>

(* ---------------------------- notification ----------------------------- *)

\* the comparison never finds the hash unchanged
HashUnchangedM(hash, lastHash) == FALSE

\* hash === lastHash
HashUnchanged(hash, lastHash) == lastHash = Some(hash)

NotifyGet(p) ==
  /\ inv[p].pc = "notify_get"
  /\ \E o \in KVOutcomes :
       IF o = "throw" THEN Set(p, Catch(inv[p], KVError))
       ELSE IF HashUnchanged(sha256Hex(Join(inv[p].dates)), kv.Last_dates)
            THEN Set(p, [inv[p] EXCEPT !.pc = "reset_putCount"])
            ELSE Set(p, [inv[p] EXCEPT !.pc = "notify_put"])
  /\ UNCHANGED <<kv, storeFaults, limit, active, fn, hist, lastNotified>>

\* the hash is not persisted before the send
NotifyPutM(p) ==
  /\ inv[p].pc = "notify_put"
  /\ Set(p, [inv[p] EXCEPT !.pc = "notify_send"])
  /\ UNCHANGED <<kv, storeFaults, limit, active, fn, hist, lastNotified>>

NotifyPut(p) ==
  /\ inv[p].pc = "notify_put"
  /\ \E o \in KVOutcomes :
       IF o = "throw"
       THEN Set(p, Catch(inv[p], KVError)) /\ UNCHANGED kv
       ELSE /\ kv' = [kv EXCEPT !.Last_dates = Some(sha256Hex(Join(inv[p].dates)))]
            /\ Set(p, [inv[p] EXCEPT !.pc = "notify_send"])
  /\ UNCHANGED <<storeFaults, limit, active, fn, hist, lastNotified>>

\* sendTelegram(env, buildDatesMessage(dates, range))
NotifySend(p) ==
  /\ inv[p].pc = "notify_send"
  /\ lastNotified' = Some(inv[p].dates)
  /\ \E t \in TelegramOutcomes :
       LET r == [inv[p] EXCEPT !.sent = Append(@, buildDatesMessage(inv[p].dates, Range)),
                               !.notifyRes = t]
       IN  IF t = "throw" THEN Set(p, Catch(r, FetchFailed))
           ELSE Set(p, [r EXCEPT !.pc = "reset_putCount"])
  /\ UNCHANGED <<kv, storeFaults, limit, active, fn, hist>>

(* --------------------------- failure tracking -------------------------- *)

\* the counter is left as it is
ResetPutCountM(p) ==
  /\ inv[p].pc = "reset_putCount"
  /\ Set(p, [inv[p] EXCEPT !.pc = "reset_delMsg"])
  /\ UNCHANGED <<kv, storeFaults, limit, active, fn, hist, lastNotified>>

\* resetFailureCount: KV.put("fail_count", "0")
ResetPutCount(p) ==
  /\ inv[p].pc = "reset_putCount"
  /\ \E o \in KVOutcomes :
       IF o = "throw"
       THEN Set(p, Catch(inv[p], KVError)) /\ UNCHANGED kv
       ELSE /\ kv' = [kv EXCEPT !.fail_count = Some(<<0>>)]
            /\ Set(p, [inv[p] EXCEPT !.pc = "reset_delMsg"])
  /\ UNCHANGED <<storeFaults, limit, active, fn, hist, lastNotified>>

\* last_error_msg is left in the store
ResetDelMsgM(p) ==
  /\ inv[p].pc = "reset_delMsg"
  /\ IF Len(inv[p].dates) > 0
     THEN Set(p, Settle([inv[p] EXCEPT !.branch = "success"], "resolved"))
     ELSE Set(p, [inv[p] EXCEPT !.pc = "empty_putLast"])
  /\ UNCHANGED <<kv, storeFaults, limit, active, fn, hist, lastNotified>>

\* resetFailureCount: KV.delete("last_error_msg"); with dates the try block
\* of runCheck is complete, without dates Last is written once more
ResetDelMsg(p) ==
  /\ inv[p].pc = "reset_delMsg"
  /\ \E o \in KVOutcomes :
       IF o = "throw"
       THEN Set(p, Catch(inv[p], KVError)) /\ UNCHANGED kv
       ELSE /\ kv' = [kv EXCEPT !.last_error_msg = Null]
            /\ IF HasDates(inv[p].dates)
               THEN Set(p, Settle([inv[p] EXCEPT !.branch = "success"], "resolved"))
               ELSE Set(p, [inv[p] EXCEPT !.pc = "empty_putLast"])
  /\ UNCHANGED <<storeFaults, limit, active, fn, hist, lastNotified>>

EmptyPutLast(p) ==
  /\ inv[p].pc = "empty_putLast"
  /\ \E o \in KVOutcomes :
       IF o = "throw"
       THEN Set(p, Catch(inv[p], KVError)) /\ UNCHANGED kv
       ELSE /\ kv' = [kv EXCEPT !.Last = Some([status |-> 200, at |-> timestamp])]
            /\ Set(p, Settle([inv[p] EXCEPT !.branch = "success"], "resolved"))
  /\ UNCHANGED <<storeFaults, limit, active, fn, hist, lastNotified>>

\* the stored counter is read and not used: every failure counts as the first
FailGetCountM(p) ==
  /\ inv[p].pc = "fail_getCount"
  /\ Set(p, [inv[p] EXCEPT !.current = 1, !.pc = "fail_putCount"])
  /\ UNCHANGED <<kv, storeFaults, limit, active, fn, hist, lastNotified>>

\* recordFailureAndMaybeNotify: prev = parseInt(get(fail_count) || "0")
FailGetCount(p) ==
  /\ inv[p].pc = "fail_getCount"
  /\ \E o \in KVOutcomes :
       IF o = "throw" THEN Set(p, Settle(inv[p], "rejected"))
       ELSE Set(p, [inv[p] EXCEPT
                      !.current = parseInt(OrDefault(kv.fail_count, <<0>>)) + 1,
                      !.pc = "fail_putCount"])
  /\ UNCHANGED <<kv, storeFaults, limit, active, fn, hist, lastNotified>>

FailPutCount(p) ==
  /\ inv[p].pc = "fail_putCount"
  /\ \E o \in KVOutcomes :
       IF o = "throw"
       THEN Set(p, Settle(inv[p], "rejected")) /\ UNCHANGED kv
       ELSE /\ kv' = [kv EXCEPT !.fail_count = Some(toString(inv[p].current))]
            /\ Set(p, [inv[p] EXCEPT !.pc = "fail_getMsg"])
  /\ UNCHANGED <<storeFaults, limit, active, fn, hist, lastNotified>>

\* the escalation at the fifth failure is missing
EscalateM(current) == current = 3 \/ current % 10 = 0

\* current === 3 || current === 5 || current % 10 === 0
Escalate(current) == current = 3 \/ current = 5 \/ current % 10 = 0

\* lastErrMsg !== msg
MsgChanged(lastErrMsg, msg) == lastErrMsg # Some(msg)

FailGetMsg(p) ==
  /\ inv[p].pc = "fail_getMsg"
  /\ \E o \in KVOutcomes :
       IF o = "throw" THEN Set(p, Settle(inv[p], "rejected"))
       ELSE IF MsgChanged(kv.last_error_msg, inv[p].err)
            THEN Set(p, [inv[p] EXCEPT !.pc = "fail_putMsg"])
            ELSE IF Escalate(inv[p].current)
                 THEN Set(p, [inv[p] EXCEPT !.pc = "fail_sendStill"])
                 ELSE Set(p, Settle(inv[p], "resolved"))
  /\ UNCHANGED <<kv, storeFaults, limit, active, fn, hist, lastNotified>>

FailPutMsg(p) ==
  /\ inv[p].pc = "fail_putMsg"
  /\ \E o \in KVOutcomes :
       IF o = "throw"
       THEN Set(p, Settle(inv[p], "rejected")) /\ UNCHANGED kv
       ELSE /\ kv' = [kv EXCEPT !.last_error_msg = Some(inv[p].err)]
            /\ Set(p, [inv[p] EXCEPT !.pc = "fail_sendErr"])
  /\ UNCHANGED <<storeFaults, limit, active, fn, hist, lastNotified>>

\* sendTelegram(env, "Error: ... (fail #current)")
FailSendErr(p) ==
  /\ inv[p].pc = "fail_sendErr"
  /\ \E t \in TelegramOutcomes :
       LET r == [inv[p] EXCEPT !.sent = Append(@, ErrorText(inv[p].err, inv[p].current))]
       IN  Set(p, Settle(r, IF t = "throw" THEN "rejected" ELSE "resolved"))
  /\ UNCHANGED <<kv, storeFaults, limit, active, fn, hist, lastNotified>>

\* sendTelegram(env, "Still failing (current times): ...")
FailSendStill(p) ==
  /\ inv[p].pc = "fail_sendStill"
  /\ \E t \in TelegramOutcomes :
       LET r == [inv[p] EXCEPT !.sent = Append(@, StillFailingText(inv[p].err, inv[p].current))]
       IN  Set(p, Settle(r, IF t = "throw" THEN "rejected" ELSE "resolved"))
  /\ UNCHANGED <<kv, storeFaults, limit, active, fn, hist, lastNotified>>

\* the hosting environment cuts the invocation off at an await
Abort(p) ==
  /\ inv[p].pc \notin {"idle", "done"}
  /\ Set(p, [inv[p] EXCEPT !.pc = "done", !.branch = "aborted", !.cookie = Null,
                             !.res = NoResponse, !.err = NoError, !.current = 0])
  /\ UNCHANGED <<kv, storeFaults, limit, active, fn, hist, lastNotified>>

(* ------------------------- the manual trigger -------------------------- *)

\* status || "n/a"
OrNA(x) == OrDefault(x, "n/a")

\* the answer of the runtime when fetch() throws
ErrorResponse == [status |-> 500, body |-> <<>>]

\* one of the three KV.get calls of fetch(); after the last its Response
ReportGet(p, position, key, next) ==
  /\ inv[p].pc = position
  /\ \E o \in KVOutcomes :
       IF o = "throw"
       THEN Set(p, [inv[p] EXCEPT !.pc = "done", !.report = <<>>,
                                  !.response = Some(ErrorResponse)])
       ELSE LET read == Append(inv[p].report, OrNA(kv[key])) IN
              IF next # "done"
              THEN Set(p, [inv[p] EXCEPT !.pc = next, !.report = read])
              ELSE Set(p, [inv[p] EXCEPT
                             !.pc = "done", !.report = <<>>,
                             !.response = Some([status |-> 200, body |-> read])])
  /\ UNCHANGED <<kv, storeFaults, limit, active, fn, hist, lastNotified>>

ReportGetLast(p) == ReportGet(p, "report_getLast", "Last", "report_getAuth")

ReportGetAuth(p) == ReportGet(p, "report_getAuth", "Last_auth", "report_getDates")

ReportGetDates(p) == ReportGet(p, "report_getDates", "Last_dates", "done")

(* --------------------------- specifications ---------------------------- *)

Step(p) ==
  \/ EnsureAuthGet(p)
  \/ LoginFetch(p)
  \/ LoginPutCookie(p)
  \/ LoginPutAuth(p)
  \/ DatesFetch(p)
  \/ DatesDelCookie(p)
  \/ DatesPutLastErr(p)
  \/ DatesPutLast200(p)
  \/ NotifyGet(p)
  \/ NotifyPut(p)
  \/ NotifySend(p)
  \/ ResetPutCount(p)
  \/ ResetDelMsg(p)
  \/ EmptyPutLast(p)
  \/ FailGetCount(p)
  \/ FailPutCount(p)
  \/ FailGetMsg(p)
  \/ FailPutMsg(p)
  \/ FailSendErr(p)
  \/ FailSendStill(p)

Report(p) ==
  \/ ReportGetLast(p)
  \/ ReportGetAuth(p)
  \/ ReportGetDates(p)

\* cycles started by the timer
Next ==
  \/ \E p \in Procs : Start(p, "scheduled")
  \/ ExpireCookie
  \/ \E p \in Procs : Step(p)

\* cycles started by the timer or by the manual trigger
NextAny ==
  \/ \E p \in Procs, t \in {"scheduled", "fetch"} : Start(p, t)
  \/ ExpireCookie
  \/ \E p \in Procs : Step(p)
  \/ \E p \in Procs : Report(p)

\* cycles run one after another, the store never rejects
Spec == Init /\ [][Next]_vars

\* the same, and a started cycle keeps taking its steps: each request and
\* each store operation returns
FairSpec == InitSmall /\ [][Next]_vars /\ WF_vars(\E p \in Procs : Step(p))

\* cycles run one after another, a store operation may reject
SpecKV == InitKV /\ [][Next]_vars

\* timer cycles that the hosting environment may cut off
NextAbort ==
  \/ Next
  \/ \E p \in Procs : Abort(p)

SpecAbort == InitSmall /\ [][NextAbort]_vars

\* the list the booking site has on offer while two invocations race
RaceDates == AvailableDates[Body(DisabledBody(Range, {1}))]

\* what an invocation meets during the race: the booking site hands out one
\* token, accepts it, and has no dates or RaceDates on offer
Calm(r) ==
  /\ r.lastStatus \in {0, 200, 500}
  /\ r.cookie \in {Null, Some([accessToken |-> "t1"])}
  /\ r.dates \in {<<>>, RaceDates}

\* the steps of a cycle during the race
RaceStep(p) ==
  \/ EnsureAuthGet(p) /\ Calm(inv'[p])
  \/ LoginFetch(p) /\ Calm(inv'[p])
  \/ LoginPutCookie(p) /\ Calm(inv'[p])
  \/ LoginPutAuth(p) /\ Calm(inv'[p])
  \/ DatesFetch(p) /\ Calm(inv'[p])
  \/ DatesPutLastErr(p) /\ Calm(inv'[p])
  \/ DatesPutLast200(p) /\ Calm(inv'[p])
  \/ NotifyGet(p) /\ Calm(inv'[p])
  \/ NotifyPut(p) /\ Calm(inv'[p])
  \/ NotifySend(p) /\ Calm(inv'[p])
  \/ ResetPutCount(p) /\ Calm(inv'[p])
  \/ ResetDelMsg(p) /\ Calm(inv'[p])
  \/ EmptyPutLast(p) /\ Calm(inv'[p])
  \/ FailGetCount(p) /\ Calm(inv'[p])
  \/ FailPutCount(p) /\ Calm(inv'[p])
  \/ FailGetMsg(p) /\ Calm(inv'[p])
  \/ FailPutMsg(p) /\ Calm(inv'[p])
  \/ FailSendErr(p) /\ Calm(inv'[p])
  \/ FailSendStill(p) /\ Calm(inv'[p])

\* invocation 1 is a manual trigger, invocation 2 a timer tick; each runs
\* once, and their steps interleave
NextRace ==
  \/ inv[1].pc = "idle" /\ Start(1, "fetch")
  \/ inv[2].pc = "idle" /\ Start(2, "scheduled")
  \/ ExpireCookie
  \/ \E p \in Procs : RaceStep(p)
  \/ Report(1)

SpecRace == InitRace /\ [][NextRace]_vars

\* cycles run one after another, started by the timer or the manual trigger
SpecManual == InitSmall /\ [][NextAny]_vars

(* ------------------------ the pure functions -------------------------- *)

\* largest month offset, in either direction, of the calls checked
MaxOffset == 14

\* longest disabled list of the calls checked
MaxDisabled == 2

\* longest date list of the calls checked
MaxDates == 31

\* years of new Date() in the calls of calculateMonthRange
FnYears == {1999, 2000, 2023, 2024, 2100}

\* the arguments of calculateMonthRange(offset) and the clock it reads
MonthRangeCalls ==
  { [op |-> "calculateMonthRange",
     args |-> [now |-> [year |-> y, month |-> m], offset |-> o],
     result |-> Null] :
      y \in FnYears, m \in 1..12, o \in (0 - MaxOffset)..MaxOffset }

\* month ranges handed to computeAvailableDays
FnRanges ==
  { calculateMonthRange([year |-> ym[1], month |-> ym[2]], 0) :
      ym \in {<<2024, 2>>, <<2025, 2>>, <<2025, 4>>, <<2025, 12>>} }

\* disabled-date records for a range: its first day, its last day with a
\* time part, a day inside, the days next to its boundaries, and a record
\* without date
DisabledRecords(range) ==
  { [date |-> range.startISO],
    [date |-> range.endISO \o <<"T12:30:00">>],
    [date |-> <<range.startISO[1], range.startISO[2], 15>> \o <<"T00:00:00">>],
    [date |-> DateUTC(range.startISO[1], range.startISO[2] - 1, 0)],
    [date |-> NextDay(range.endISO)],
    [date |-> <<>>] }

SeqsUpTo(S, n) == UNION { [1..k -> S] : k \in 0..n }

AvailableDaysCalls ==
  { [op |-> "computeAvailableDays",
     args |-> [disabledDates |-> l, range |-> r],
     result |-> Null] :
      r \in FnRanges, l \in UNION { SeqsUpTo(DisabledRecords(q), MaxDisabled) : q \in FnRanges } }

\* two months of consecutive dates
FnDays ==
  AllDays(<<2025, 7, 1>>, <<2025, 7, 31>>) \o AllDays(<<2025, 8, 1>>, <<2025, 8, 31>>)

\* ascending date lists of every length up to MaxDates
DatesMessageCalls ==
  { [op |-> "buildDatesMessage",
     args |-> [dates |-> SubSeq(FnDays, a, a + n - 1), range |-> Range],
     result |-> Null] :
      a \in 1..3, n \in 0..MaxDates }

InitFn ==
  /\ kv = EmptyKV
  /\ storeFaults = FALSE
  /\ limit = MaxFailSmall
  /\ active = {}
  /\ inv = [p \in Procs |-> Invocation("idle", "none", EmptyKV, Null)]
  /\ hist = NoHist
  /\ lastNotified = Null
  /\ fn \in MonthRangeCalls \cup AvailableDaysCalls \cup DatesMessageCalls

Return(value) ==
  /\ fn' = [fn EXCEPT !.result = Some(value)]
  /\ UNCHANGED <<kv, storeFaults, limit, active, inv, hist, lastNotified>>

CallMonthRange ==
  /\ fn.op = "calculateMonthRange" /\ fn.result = Null
  /\ Return(calculateMonthRange(fn.args.now, fn.args.offset))

CallAvailableDays ==
  /\ fn.op = "computeAvailableDays" /\ fn.result = Null
  /\ Return(computeAvailableDays(fn.args.disabledDates, fn.args.range))

CallDatesMessage ==
  /\ fn.op = "buildDatesMessage" /\ fn.result = Null
  /\ Return(buildDatesMessage(fn.args.dates, fn.args.range))

NextFn ==
  \/ CallMonthRange
  \/ CallAvailableDays
  \/ CallDatesMessage

\* one call of a pure function on arguments drawn from the sets above
SpecFn == InitFn /\ [][NextFn]_vars

(* ------------------------------- claims -------------------------------- *)

Running(p) == inv[p].pc \notin {"idle", "done"}

InTracker(p) ==
  inv[p].pc \in {"fail_getCount", "fail_putCount", "fail_getMsg", "fail_putMsg",
                 "fail_sendErr", "fail_sendStill"}

\* C1: within one cycle fetchAvailableDates reacts to a 401/403 at most once:
\* a cycle issues at most two availability requests and at most one forced
\* re-login, and a 401/403 answer to the repeated request is not followed by
\* another deletion of the credential, login and request.
C1_SingleRetry ==
  \A p \in Procs :
    /\ inv[p].nReq <= 2
    /\ inv[p].nForced <= 1
    /\ ~(inv[p].nReq >= 2 /\ inv[p].pc = "dates_delCookie")

\* C2: every started cycle terminates: when each request and each store
\* operation returns, the cycle reaches the end of its success branch or of
\* its caught-failure branch, whatever the booking site answers.
C2_CycleTerminates ==
  (\E p \in Procs : Running(p)) ~> (\A p \in Procs : inv[p].pc = "done" \/ p \notin active)

\* C3: no exception escapes runCheck: the promise the scheduled trigger hands
\* to waitUntil is never rejected, whichever step of the cycle throws.
C3_NoEscape ==
  \A p \in Procs : inv[p].outcome # "rejected"

\* C4: a failed dates notification (non-2xx answer or thrown network error)
\* never enters the failure-tracking path: the catch block is not entered, no
\* failure message is requested, and the cycle ends in the success branch.
C4_SendFailureNotTracked ==
  \A p \in Procs :
    inv[p].notifyRes \in {"non2xx", "throw"} =>
      /\ inv[p].branch # "failure"
      /\ ~InTracker(p)
      /\ FailureMsgs(inv[p]) = <<>>
      /\ inv[p].pc = "done" => inv[p].branch = "success"

\* maybeNotifyNewDates was called in the cycle and has returned or thrown
AfterNotify(p) ==
  /\ Len(inv[p].dates) > 0
  /\ inv[p].branch # "aborted"
  /\ \/ inv[p].pc \in {"reset_putCount", "reset_delMsg", "done"}
     \/ InTracker(p)

HashOf(dates) == Some(sha256Hex(Join(dates)))

\* C5: maybeNotifyNewDates requests no message when its list is the list of
\* the latest dates message, however many cycles lie in between, and exactly
\* one message when the list differs from it; of two consecutive cycles with
\* the same non-empty list the second requests none, so the two request at
\* most one in total.
C5_HashSuppression ==
  \A p \in Procs :
    AfterNotify(p) =>
      /\ NDates(inv[p]) = (IF inv[p].notifiedBefore = Some(inv[p].dates) THEN 0 ELSE 1)
      /\ hist.dates = inv[p].dates =>
           /\ NDates(inv[p]) = 0
           /\ hist.nDates + NDates(inv[p]) <= 1

\* two consecutive cycles with the same non-empty list have finished and the
\* one message of the pair was requested by the first
C5_Witness ==
  \E p \in Procs :
    /\ inv[p].pc = "done" /\ inv[p].branch = "success"
    /\ Len(inv[p].dates) > 0
    /\ hist.dates = inv[p].dates
    /\ hist.nDates = 1
    /\ NDates(inv[p]) = 0

SuccessAfterSuccess(p) ==
  /\ inv[p].pc = "done" /\ inv[p].branch = "success"
  /\ hist.branch = "success"
  /\ hist.dates # inv[p].dates

\* C6, as claimed: of two consecutive successful cycles whose available-date
\* lists differ, the later one requests a dates message.
C6_NotifiedOnEveryChange ==
  \A p \in Procs : SuccessAfterSuccess(p) => NDates(inv[p]) >= 1

\* C6, amended: of two consecutive successful cycles whose lists differ, the
\* later one requests a dates message exactly when its list is non-empty and
\* its hash is not the one Last_dates held when the cycle started; a change to
\* the empty list, and a return to the last notified list after an empty
\* interval, request nothing.
C6_NotifiedOnNewNonEmpty ==
  \A p \in Procs :
    SuccessAfterSuccess(p) =>
      NDates(inv[p]) =
        (IF Len(inv[p].dates) > 0 /\ inv[p].startKV.Last_dates # HashOf(inv[p].dates)
         THEN 1 ELSE 0)

\* after an empty cycle the list that was notified before is fetched again
\* and the successful cycle has requested nothing
C6_Witness ==
  \E p \in Procs :
    /\ SuccessAfterSuccess(p)
    /\ hist.dates = <<>>
    /\ Len(inv[p].dates) > 0
    /\ inv[p].startKV.Last_dates = HashOf(inv[p].dates)
    /\ NDates(inv[p]) = 0

\* C7: Last_dates holds the hash of a list when the message for it is
\* requested and from then on, wherever the cycle is cut off or fails; a
\* message is requested only for a list whose hash the store did not hold
\* when the cycle started; so a cycle that follows one which requested the
\* message for the same list, and then completed, failed or was cut off,
\* requests none.
C7_HashBeforeSend ==
  /\ [](\A p \in Procs :
          /\ NDates(inv[p]) > 0 => kv.Last_dates = HashOf(inv[p].dates)
          /\ (hist.nDates = 1 /\ hist.dates = inv[p].dates) => NDates(inv[p]) = 0)
  /\ [][\A p \in Procs :
          NDates(inv[p])' > NDates(inv[p]) =>
            /\ kv.Last_dates = HashOf(inv[p].dates)
            /\ inv[p].startKV.Last_dates # HashOf(inv[p].dates)]_vars

\* a cycle was cut off after it had requested the message for its list, and
\* the next cycle, fetching the same list, has completed without a message
C7_Witness ==
  \E p \in Procs :
    /\ hist.branch = "aborted" /\ hist.nDates = 1
    /\ hist.dates = inv[p].dates
    /\ inv[p].pc = "done" /\ inv[p].branch = "success"
    /\ NDates(inv[p]) = 0

\* C8: after a successful cycle, with or without available dates, fail_count
\* is "0" and last_error_msg is absent, whatever they were before; without
\* dates Last records status 200.
C8_ResetOnSuccess ==
  \A p \in Procs :
    (inv[p].pc = "done" /\ inv[p].branch = "success") =>
      /\ kv.fail_count = Some(<<0>>)
      /\ kv.last_error_msg = Null
      /\ Len(inv[p].dates) = 0 => kv.Last = Some([status |-> 200, at |-> timestamp])

\* a successful cycle without dates has finished that started with a
\* positive failure counter and a recorded error message
C8_Witness ==
  \E p \in Procs :
    /\ inv[p].pc = "done" /\ inv[p].branch = "success"
    /\ Len(inv[p].dates) = 0
    /\ inv[p].startKV.fail_count \notin {Null, Some(<<0>>)}
    /\ inv[p].startKV.last_error_msg # Null

FailedCycle(p) == inv[p].pc = "done" /\ inv[p].branch = "failure"

\* the failure count the cycle's failure makes, from the counter it started with
CountAfter(p) == parseInt(OrDefault(inv[p].startKV.fail_count, <<0>>)) + 1

\* C9: a failed cycle whose message differs from the recorded last_error_msg
\* requests one error message tagged with the incremented count and records
\* the message; one whose message equals it requests one escalation message
\* when the incremented count is 3, 5 or a multiple of 10 and nothing at any
\* other count; no failed cycle requests more than one failure message.
C9_Escalation ==
  \A p \in Procs :
    FailedCycle(p) =>
      LET n  == CountAfter(p)
          fm == FailureMsgs(inv[p])
      IN  /\ Len(fm) <= 1
          /\ kv.fail_count = Some(toString(n))
          /\ IF inv[p].startKV.last_error_msg # Some(inv[p].err)
             THEN /\ fm = <<ErrorText(inv[p].err, n)>>
                  /\ kv.last_error_msg = Some(inv[p].err)
             ELSE IF n \in {3, 5} \/ n % 10 = 0
                  THEN fm = <<StillFailingText(inv[p].err, n)>>
                  ELSE fm = <<>>

\* the tenth consecutive failure with the recorded message has escalated
C9_Witness ==
  \E p \in Procs :
    /\ FailedCycle(p)
    /\ inv[p].startKV.last_error_msg = Some(inv[p].err)
    /\ FailureMsgs(inv[p]) = <<StillFailingText(inv[p].err, 10)>>

\* C10: the first failed cycle after a successful cycle requests an error
\* message with failure count 1, whatever its message is.
C10_FreshAfterSuccess ==
  \A p \in Procs :
    (FailedCycle(p) /\ hist.branch = "success") =>
      FailureMsgs(inv[p]) = <<ErrorText(inv[p].err, 1)>>

\* a cycle has failed right after a successful one and has requested the
\* error message with count 1
C10_Witness ==
  \E p \in Procs :
    /\ FailedCycle(p) /\ hist.branch = "success"
    /\ inv[p].current = 1
    /\ ErrorText(inv[p].err, 1) \in {inv[p].sent[i] : i \in DOMAIN inv[p].sent}

\* the cycle has ended after at least one availability request was answered
AnsweredCycle(p) == inv[p].pc = "done" /\ inv[p].lastStatus # 0

\* C11: at the end of a cycle in which an availability request received a
\* response, the status part of Last is the status of the most recent such
\* response; a 401/403 whose follow-up login fails does not leave an older
\* status (or none) in Last.
C11_LastIsLatestStatus ==
  \A p \in Procs :
    AnsweredCycle(p) =>
      /\ kv.Last # Null
      /\ kv.Last[1].status = inv[p].lastStatus

\* the cycle takes its last step
Ends(p) == inv[p].pc \notin {"idle", "done"} /\ inv'[p].pc = "done"

\* the cycle was answered 401/403 once, logged in again and had its repeated
\* request answered 200 with a list
ReloggedIn(r) ==
  /\ r.nForced = 1 /\ r.nReq = 2 /\ r.lastStatus = 200
  /\ r.err # JSONError

\* C12: after a 401/403 the login is requested with the cached credential
\* deleted; when that login succeeds and the repeated request is answered
\* 200, the cycle ends as a success: no failure is recorded, no failure
\* message is requested, fail_count is "0" and the store holds the fresh
\* credential; when the login after a 401/403 fails, the cycle ends with no
\* credential in the store.
C12_TransparentRelogin ==
  /\ [](\A p \in Procs :
          (inv[p].pc = "login_fetch" /\ inv[p].nForced >= 1) => kv.Cookie = Null)
  /\ [][\A p \in Procs :
          Ends(p) =>
            /\ ReloggedIn(inv'[p]) =>
                  /\ inv'[p].branch = "success"
                  /\ FailureMsgs(inv'[p]) = <<>>
                  /\ kv'.fail_count = Some(<<0>>)
                  /\ inv'[p].fresh # Null
                  /\ kv'.Cookie = Some(JSONstringify(inv'[p].fresh[1]))
            /\ (inv'[p].nForced >= 1 /\ inv'[p].fresh = Null) =>
                  kv'.Cookie = Null]_vars

\* C13: the manual trigger answers 200 with the stored Last, Last_auth and
\* Last_dates, each "n/a" when absent, whatever the cycle it ran first did:
\* when runCheck has settled, rejected or not, the handler reads the three
\* keys and answers, and it never throws.
C13_ReportAlwaysAnswers ==
  \A p \in Procs :
    inv[p].trigger = "fetch" =>
      /\ inv[p].outcome # "pending" =>
            inv[p].pc \in {"report_getLast", "report_getAuth", "report_getDates", "done"}
      /\ inv[p].pc = "done" =>
            /\ inv[p].outcome # "pending"
            /\ inv[p].response # Null
            /\ inv[p].response[1].status = 200
            /\ inv[p].response[1].body =
                 << IF kv.Last = Null THEN "n/a" ELSE kv.Last[1],
                    IF kv.Last_auth = Null THEN "n/a" ELSE kv.Last_auth[1],
                    IF kv.Last_dates = Null THEN "n/a" ELSE kv.Last_dates[1] >>

\* the failure tracker of a manually triggered cycle has thrown, and the
\* trigger has answered 200 with "n/a" for the Last it did not find
C13_Witness ==
  \E p \in Procs :
    /\ inv[p].trigger = "fetch" /\ inv[p].pc = "done"
    /\ inv[p].outcome = "rejected"
    /\ kv.Last = Null
    /\ inv[p].response # Null
    /\ inv[p].response[1].status = 200

\* C14: when two interleaved cycles fetch the same non-empty list, which is
\* not the last notified one, the two request at most one dates message in
\* total, in every interleaving.
C14_NoDuplicateUnderRace ==
  (/\ inv[1].dates = inv[2].dates
   /\ Len(inv[1].dates) > 0
   /\ \A p \in Procs : inv[p].startKV.Last_dates # HashOf(inv[p].dates))
  => NDates(inv[1]) + NDates(inv[2]) <= 1

\* calendar date a is before calendar date b
Before(a, b) ==
  \/ a[1] < b[1]
  \/ a[1] = b[1] /\ a[2] < b[2]
  \/ a[1] = b[1] /\ a[2] = b[2] /\ a[3] < b[3]

\* the days of the calendar in the years of FnRanges and next to them
CalendarDates ==
  { d \in (2023..2026) \X (1..12) \X (1..31) : d[3] <= DaysInMonth(d[1], d[2]) }

\* the calendar dates the records of a disabled list name
DisabledDays(disabledDates) ==
  { d \in CalendarDates :
      \E i \in 1..Len(disabledDates) :
        /\ Len(disabledDates[i].date) >= 3
        /\ d = <<disabledDates[i].date[1], disabledDates[i].date[2],
                 disabledDates[i].date[3]>> }

\* C15: computeAvailableDays returns exactly the calendar dates from
\* startISO to endISO, both included, that no record of the disabled list
\* names, in ascending order and without duplicates; a record without date
\* removes nothing, nor does a disabled date outside the range.
C15_ExactComplement ==
  (fn.op = "computeAvailableDays" /\ fn.result # Null) =>
    LET out   == fn.result[1]
        range == fn.args.range
        inRange == { d \in CalendarDates :
                       /\ ~Before(d, range.startISO)
                       /\ ~Before(range.endISO, d) }
    IN  /\ { out[i] : i \in 1..Len(out) } = inRange \ DisabledDays(fn.args.disabledDates)
        /\ \A i \in 1..Len(out) - 1 : Before(out[i], out[i + 1])

\* the call had a record without date, a disabled day outside the range and
\* the last day of February 2024 with a time part: only the 29th is missing
C15_Witness ==
  /\ fn.op = "computeAvailableDays" /\ fn.result # Null
  /\ fn.args.range.endISO = <<2024, 2, 29>>
  /\ fn.args.disabledDates = << [date |-> <<>>], [date |-> <<2024, 2, 29, "T12:30:00">>] >>
  /\ Len(fn.result[1]) = 28
  /\ fn.result[1][28] = <<2024, 2, 28>>

\* C16: the dates message lists the first min(n, 15) of the n dates, in
\* their order, and carries the "+k more" suffix exactly when n > 15, with
\* k = n - 15; for 29 dates it lists 15 and says +14 more.
C16_FirstFifteen ==
  (fn.op = "buildDatesMessage" /\ fn.result # Null) =>
    LET dates == fn.args.dates
        n     == Len(dates)
        msg   == fn.result[1]
    IN  /\ Len(msg.list) = (IF n < 15 THEN n ELSE 15)
        /\ \A i \in 1..Len(msg.list) : msg.list[i] = dates[i]
        /\ (msg.extra # Null) <=> (n > 15)
        /\ n > 15 => msg.extra = <<n - 15>>
        /\ n = 29 => (Len(msg.list) = 15 /\ msg.extra = <<14>>)

\* the message for 29 dates has been built
C16_Witness ==
  /\ fn.op = "buildDatesMessage" /\ fn.result # Null
  /\ Len(fn.args.dates) = 29
  /\ Len(fn.result[1].list) = 15
  /\ fn.result[1].list[15] = fn.args.dates[15]
  /\ fn.result[1].extra = <<14>>

\* the last day of month m of year y
LastDay(y, m) ==
  IF m \in {1, 3, 5, 7, 8, 10, 12} THEN 31
  ELSE IF m # 2 THEN 30
  ELSE IF y % 400 = 0 \/ (y % 4 = 0 /\ y % 100 # 0) THEN 29 ELSE 28

\* C17: for every offset and every current date, calculateMonthRange returns
\* day 1 of the month that lies offset months from the current one as
\* startISO, the last calendar day of that month and year as endISO, and
\* that month, in 1..12, and year as displayMonth and displayYear.
C17_MonthRange ==
  (fn.op = "calculateMonthRange" /\ fn.result # Null) =>
    LET months == fn.args.now.year * 12 + (fn.args.now.month - 1) + fn.args.offset
        y == months \div 12
        m == (months % 12) + 1
        r == fn.result[1]
    IN  /\ r.startISO = <<y, m, 1>>
        /\ r.endISO = <<y, m, LastDay(y, m)>>
        /\ r.displayMonth \in 1..12
        /\ r.displayMonth = r.startISO[2]
        /\ r.displayYear = r.startISO[1]

\* from December 2023 the offset 2 crosses the year and ends on the leap day
C17_Witness ==
  /\ fn.op = "calculateMonthRange" /\ fn.result # Null
  /\ fn.args.now = [year |-> 2023, month |-> 12]
  /\ fn.args.offset = 2
  /\ fn.result[1].startISO = <<2024, 2, 1>>
  /\ fn.result[1].endISO = <<2024, 2, 29>>

\* C18: with cycles run one after another, at every cycle boundary
\* fail_count is the number of failed cycles in a row since the last
\* successful cycle: nothing or 0 before the first cycle, 0 after a success,
\* one more after each failure.
C18_CountIsStreak ==
  /\ (\A p \in Procs : inv[p].pc = "idle") => kv.fail_count = Null
  /\ \A p \in Procs :
       inv[p].pc = "done" =>
         /\ kv.fail_count # Null
         /\ parseInt(kv.fail_count[1]) =
              (IF inv[p].branch = "failure" THEN hist.streak + 1 ELSE 0)

\* the third failed cycle in a row has ended with fail_count "3"
C18_Witness ==
  \E p \in Procs :
    /\ inv[p].pc = "done" /\ inv[p].branch = "failure"
    /\ hist.branch = "failure" /\ hist.streak = 2
    /\ kv.fail_count = Some(toString(3))

\* C19: when a succeeding and a failing cycle have run interleaved and both
\* have finished, the store is Healthy or Failing: fail_count "0" comes with
\* no last_error_msg.
C19_ConsistentUnderRace ==
  (/\ \A p \in Procs : inv[p].pc = "done"
   /\ {inv[p].branch : p \in Procs} = {"success", "failure"}
   /\ kv.fail_count = Some(toString(0)))
  => kv.last_error_msg = Null

\* the login endpoint has answered the cycle's latest login request with a
\* non-success status
LoginRefused(r) == r.branch = "failure" /\ r.err.text = "Login failed"

\* C20: a cycle requests a login only when ensureAuth finds no credential
\* in the store or right after it has deleted the credential on a 401/403;
\* a login answered with a non-success status ends the try block: no
\* further login or availability request follows in the cycle, and Cookie
\* and Last_auth stay as they were when the login was requested; after a
\* successful login the availability request is made with the credential
\* and Last_auth in the store.
C20_LoginDiscipline ==
  /\ [](\A p \in Procs :
          (inv[p].pc = "dates_fetch" /\ inv[p].nLogin >= 1) =>
            /\ inv[p].cookie # Null
            /\ kv.Cookie = Some([json |-> inv[p].cookie[1]])
            /\ kv.Last_auth = Some(timestamp))
  /\ [][\A p \in Procs :
          /\ inv'[p].nLogin # inv[p].nLogin =>
                \/ inv'[p].pc = "ensureAuth_get"
                \/ inv[p].pc = "login_fetch"
          /\ (inv'[p].pc = "login_fetch" /\ inv[p].pc # "login_fetch") =>
                \/ inv[p].pc = "ensureAuth_get" /\ kv.Cookie = Null
                \/ /\ inv[p].pc = "dates_delCookie"
                   /\ inv[p].res.status \in {401, 403}
                   /\ kv'.Cookie = Null
          /\ (LoginRefused(inv'[p]) /\ inv'[p].pc # "idle") =>
                /\ kv'.Cookie = kv.Cookie
                /\ kv'.Last_auth = kv.Last_auth
                /\ LoginRefused(inv[p]) =>
                      /\ inv'[p].nLogin = inv[p].nLogin
                      /\ inv'[p].nReq = inv[p].nReq]_vars

\* a cycle found a credential, was answered 401/403, deleted it and had its
\* one login refused; it has ended with no credential stored and Last_auth
\* as an earlier cycle wrote it
C20_Witness ==
  \E p \in Procs :
    /\ inv[p].pc = "done" /\ LoginRefused(inv[p])
    /\ inv[p].nLogin = 1 /\ inv[p].nForced = 1
    /\ kv.Cookie = Null
    /\ kv.Last_auth = Some(timestamp)

====
